---- MODULE Spec2Model ----
(***************************************************************************)
(* Goldleaf configuration handling (cfg_Settings.cpp): the settings        *)
(* document on the SD card, ProcessSettings (load), Settings::Save,        *)
(* Settings::PathForResource / ReadJSONResource and Settings::GetLanguage  *)
(* with its process-wide default-language cache.                           *)
(*                                                                         *)
(* Strings are sequences of one-character strings, so that empty(),        *)
(* substr() and concatenation are what the code does.  An optional JSON    *)
(* member is a sequence of length 0 (absent) or 1 (present).               *)
(***************************************************************************)
EXTENDS Integers, Sequences, FiniteSets, TLC

VARIABLES
    file,                     \* settings file on the SD card: <<>> or <<document>>
    pc,                       \* "start" | "ready" | "save_deleted" | "aborted"
    settings,                 \* the Settings value held by the process
    loaded,                   \* history: <<>> or <<[doc, rnd]>> of the last ProcessSettings
    saved,                    \* history: <<>> or <<Settings>> the file on disk was saved from
    json,                     \* Save's local document between DeleteFile and WriteJSON
    saveCrash,                \* history: the process stopped between Save's delete and write
    g_DefaultLanguage,        \* process-wide cached default language
    g_DefaultLanguageLoaded,  \* process-wide cache flag
    hostLang,                 \* what the host answers to setGetSystemLanguage
    hostQueries,              \* history: host language queries made by this process
    langResult,               \* history: <<>> or <<[lang, custom, queried]>> of the last GetLanguage
    sdFiles,                  \* regular files present on the SD card (other than the settings file)
    resResult                 \* history: <<>> or <<[op, res, path, src]>> of the last resource call

vars == <<file, pc, settings, loaded, saved, json, saveCrash, g_DefaultLanguage,
          g_DefaultLanguageLoaded, hostLang, hostQueries, langResult, sdFiles, resResult>>

langVars == <<g_DefaultLanguage, g_DefaultLanguageLoaded, hostLang, hostQueries, langResult>>
resVars  == <<sdFiles, resResult>>
saveVars == <<saved, json, saveCrash>>

----------------------------------------------------------------------------
(* Bounds of the model *)

MaxBookmarks == 2
MaxHostQueries == 2

----------------------------------------------------------------------------
(* Strings *)

Str_sdmc_slash == <<"s", "d", "m", "c", ":", "/">>
Str_sdmc       == <<"s", "d", "m", "c", ":">>
Str_slash      == <<"/">>
Str_ext        == <<"e", "x", "t">>
Str_romfs      == <<"r", "o", "m", "f", "s", ":", "/">>
Str_foo        == <<"f", "o", "o">>
Str_bar        == <<"b", "a", "r">>
Str_A          == <<"A">>
Str_B          == <<"B">>
Str_U          == <<"h", ":", "x">>
Str_V          == <<"h", ":", "y">>

Min(a, b) == IF a < b THEN a ELSE b

\* std::string::substr(pos, n), pos 0-based, clipped at the end of the string
substr(s, pos, n) == SubSeq(s, pos + 1, Min(pos + n, Len(s)))

\* std::string::empty()
empty(s) == Len(s) = 0

\* An optional JSON member
Opt(S) == {<<>>} \cup {<<x>> : x \in S}

\* nlohmann::json::value(key, default) on an object member
value(member, default) == IF member = <<>> THEN default ELSE member[1]

\* nlohmann::json::count(key)
count(member) == IF member = <<>> THEN 0 ELSE 1

----------------------------------------------------------------------------
(* Colors and the hex codec *)

HexDigits == <<"0", "1", "2", "3", "4", "5", "6", "7", "8", "9", "A", "B", "C", "D", "E", "F">>

\* "%02X" of one u8 channel
Hex2(n) == <<HexDigits[(n \div 16) + 1], HexDigits[(n % 16) + 1]>>

ColorToHex(clr) == <<"#">> \o Hex2(clr.r) \o Hex2(clr.g) \o Hex2(clr.b) \o Hex2(clr.a)

HexVal(ch) == (CHOOSE i \in 1..16 : HexDigits[i] = ch) - 1

\* strtoul(two hex digits, 16)
ParseHex2(s) == 16 * HexVal(s[1]) + HexVal(s[2])

\* pu::ui::Color::FromHex on "#RRGGBBAA"
FromHex(s) == [r |-> ParseHex2(substr(s, 1, 2)), g |-> ParseHex2(substr(s, 3, 2)),
               b |-> ParseHex2(substr(s, 5, 2)), a |-> ParseHex2(substr(s, 7, 2))]

Color(r, g, b, a) == [r |-> r, g |-> g, b |-> b, a |-> a]

ZeroColor == Color(0, 0, 0, 0)
ColA == Color(255, 16, 15, 171)
ColB == Color(0, 128, 9, 255)
ColC == Color(18, 52, 86, 120)
RndA == Color(1, 2, 3, 255)
RndB == Color(200, 100, 50, 255)
RndC == Color(77, 66, 55, 255)
RndD == Color(10, 20, 30, 255)

Scheme(bg, base, bf, text) == [bg |-> bg, base |-> base, base_focus |-> bf, text |-> text]

ZeroScheme == Scheme(ZeroColor, ZeroColor, ZeroColor, ZeroColor)

\* what ui::GenerateRandomScheme() may return
RandomSchemes == {Scheme(RndA, RndB, RndC, RndD), Scheme(RndD, RndC, RndB, RndA)}

----------------------------------------------------------------------------
(* Languages *)

Languages == {"English", "French", "German"}

Str_en == <<"e", "n">>
Str_fr == <<"f", "r">>
Str_de == <<"d", "e">>
Str_xx == <<"x", "x">>

GetLanguageCode(lang) ==
    CASE lang = "English" -> Str_en
      [] lang = "French"  -> Str_fr
      [] lang = "German"  -> Str_de

GetLanguageByCode(code) ==
    IF \E l \in Languages : GetLanguageCode(l) = code
    THEN CHOOSE l \in Languages : GetLanguageCode(l) = code
    ELSE "English"

----------------------------------------------------------------------------
(* The Settings value *)

\* the _MB literal suffix
MB(n) == n * 1024 * 1024

\* Settings settings = {};
ZeroSettings ==
    [has_custom_lang |-> FALSE, custom_lang |-> "English",
     has_external_romfs |-> FALSE, external_romfs |-> <<>>,
     use_12h_time |-> FALSE, ignore_hidden_files |-> FALSE,
     has_custom_scheme |-> FALSE, custom_scheme |-> ZeroScheme,
     menu_item_size |-> 0,
     has_scrollbar_color |-> FALSE, scrollbar_color |-> ZeroColor,
     has_progressbar_color |-> FALSE, progressbar_color |-> ZeroColor,
     ignore_required_fw_ver |-> FALSE, show_deletion_prompt_after_install |-> FALSE,
     copy_buffer_max_size |-> 0, decrypt_buffer_max_size |-> 0,
     bookmarks |-> <<>>]

----------------------------------------------------------------------------
(* The settings document *)

Gen(l, e, t, h) == [customLanguage |-> l, externalRomFs |-> e, use12hTime |-> t, ignoreHiddenFiles |-> h]

Ui(bg, base, bf, text, m, sb, pb) ==
    [background |-> bg, base |-> base, baseFocus |-> bf, text |-> text,
     menuItemSize |-> m, scrollBar |-> sb, progressBar |-> pb]

Inst(fw, del, copy, dec) ==
    [ignoreRequiredFwVersion |-> fw, showDeletionPromptAfterInstall |-> del,
     copyBufferMaxSize |-> copy, decryptBufferMaxSize |-> dec]

Exp(dec) == [decryptBufferMaxSize |-> dec]

Web(b) == [bookmarks |-> b]

Doc(g, u, i, e, w) == [general |-> g, ui |-> u, installs |-> i, export |-> e, web |-> w]

\* JSON::object() with no members
EmptyDoc == Doc(<<>>, <<>>, <<>>, <<>>, <<>>)

\* sd_exp->ReadJSON(GLEAF_PATH_SETTINGS_FILE): a missing file reads as an empty document
ReadJSON(f) == IF f = <<>> THEN EmptyDoc ELSE f[1]

\* sd_exp->DeleteFile(GLEAF_PATH_SETTINGS_FILE)
DeleteFile(f) == <<>>

\* sd_exp->WriteJSON(GLEAF_PATH_SETTINGS_FILE, json)
WriteJSON(f, doc) == <<doc>>

----------------------------------------------------------------------------
(* ProcessSettings *)

\* LoadDefaults without line 154: the scheme stays value-initialized
LoadDefaults_NoRandomScheme(rnd) ==
    [ZeroSettings EXCEPT
        !.menu_item_size = 80,
        !.ignore_required_fw_ver = TRUE,
        !.copy_buffer_max_size = MB(4),
        !.decrypt_buffer_max_size = MB(16)]

\* lines 138-154: the defaults and the random scheme
LoadDefaults(rnd) ==
    [ZeroSettings EXCEPT
        !.menu_item_size = 80,
        !.ignore_required_fw_ver = TRUE,
        !.copy_buffer_max_size = MB(4),
        !.decrypt_buffer_max_size = MB(16),
        !.custom_scheme = rnd]

\* NormalizeExternalRomFs without the test of line 174: the separator is always added
NormalizeExternalRomFs_AlwaysSlash(ext_romfs) ==
    IF substr(ext_romfs, 0, 6) = Str_sdmc_slash
    THEN ext_romfs
    ELSE Str_sdmc \o Str_slash \o ext_romfs

\* lines 169-178
NormalizeExternalRomFs(ext_romfs) ==
    IF substr(ext_romfs, 0, 6) = Str_sdmc_slash
    THEN ext_romfs
    ELSE Str_sdmc \o (IF ext_romfs[1] # "/" THEN Str_slash ELSE <<>>) \o ext_romfs

\* lines 158-183
LoadGeneral(s, doc) ==
    IF count(doc.general) = 0 THEN s
    ELSE
      LET g    == doc.general[1]
          lang == value(g.customLanguage, <<>>)
          ext  == value(g.externalRomFs, <<>>)
          s1   == IF ~empty(lang)
                  THEN [s EXCEPT !.has_custom_lang = TRUE, !.custom_lang = GetLanguageByCode(lang)]
                  ELSE s
          s2   == IF ~empty(ext)
                  THEN [s1 EXCEPT !.has_external_romfs = TRUE,
                                  !.external_romfs = NormalizeExternalRomFs(ext)]
                  ELSE s1
      IN [s2 EXCEPT !.use_12h_time = value(g.use12hTime, s2.use_12h_time),
                    !.ignore_hidden_files = value(g.ignoreHiddenFiles, s2.ignore_hidden_files)]

\* lines 185-217
LoadUi(s, doc) ==
    IF count(doc.ui) = 0 THEN s
    ELSE
      LET u  == doc.ui[1]
          background_clr == value(u.background, <<>>)
          base_clr       == value(u.base, <<>>)
          base_focus_clr == value(u.baseFocus, <<>>)
          text_clr       == value(u.text, <<>>)
          scrollbar_clr  == value(u.scrollBar, <<>>)
          pbar_clr       == value(u.progressBar, <<>>)
          s1 == IF ~empty(background_clr)
                THEN [s EXCEPT !.has_custom_scheme = TRUE, !.custom_scheme.bg = FromHex(background_clr)]
                ELSE s
          s2 == IF ~empty(base_clr)
                THEN [s1 EXCEPT !.has_custom_scheme = TRUE, !.custom_scheme.base = FromHex(base_clr)]
                ELSE s1
          s3 == IF ~empty(base_focus_clr)
                THEN [s2 EXCEPT !.has_custom_scheme = TRUE, !.custom_scheme.base_focus = FromHex(base_focus_clr)]
                ELSE s2
          s4 == IF ~empty(text_clr)
                THEN [s3 EXCEPT !.has_custom_scheme = TRUE, !.custom_scheme.text = FromHex(text_clr)]
                ELSE s3
          s5 == [s4 EXCEPT !.menu_item_size = value(u.menuItemSize, s4.menu_item_size)]
          s6 == IF ~empty(scrollbar_clr)
                THEN [s5 EXCEPT !.has_scrollbar_color = TRUE, !.scrollbar_color = FromHex(scrollbar_clr)]
                ELSE s5
      IN IF ~empty(pbar_clr)
         THEN [s6 EXCEPT !.has_progressbar_color = TRUE, !.progressbar_color = FromHex(pbar_clr)]
         ELSE s6

\* lines 218-222
LoadInstalls(s, doc) ==
    IF count(doc.installs) = 0 THEN s
    ELSE
      LET i == doc.installs[1]
      IN [s EXCEPT
            !.ignore_required_fw_ver = value(i.ignoreRequiredFwVersion, s.ignore_required_fw_ver),
            !.show_deletion_prompt_after_install =
                value(i.showDeletionPromptAfterInstall, s.show_deletion_prompt_after_install),
            !.copy_buffer_max_size = value(i.copyBufferMaxSize, s.copy_buffer_max_size)]

\* line 224 evaluates settings_json["installs"] on a const document under the guard
\* count("export"): with no "installs" member the const operator[] has no defined result
ReadsMissingInstalls(doc) == count(doc.export) # 0 /\ count(doc.installs) = 0

\* what the undefined read may yield: <<>> (the process aborts) or <<n>> (some number)
UndefinedOutcomes == Opt({0, MB(16), MB(64)})

\* lines 223-225
LoadExport(s, doc, ub) ==
    IF count(doc.export) = 0 THEN s
    ELSE IF count(doc.installs) = 0
         THEN [s EXCEPT !.decrypt_buffer_max_size = ub[1]]
         ELSE [s EXCEPT !.decrypt_buffer_max_size =
                   value(doc.installs[1].decryptBufferMaxSize, s.decrypt_buffer_max_size)]

\* KeepBookmark testing the url alone
KeepBookmark_UrlOnly(bmk) == ~empty(bmk.url)

\* line 233
KeepBookmark(bmk) == ~empty(bmk.url) /\ ~empty(bmk.name)

\* lines 229-232
ReadBookmark(e) == [name |-> value(e.name, <<>>), url |-> value(e.url, <<>>)]

\* lines 228-236, over the first n entries of the array
RECURSIVE PushBookmarks(_, _, _)
PushBookmarks(bookmarks, arr, i) ==
    IF i > Len(arr) THEN bookmarks
    ELSE LET bmk == ReadBookmark(arr[i])
         IN PushBookmarks(IF KeepBookmark(bmk) THEN Append(bookmarks, bmk) ELSE bookmarks, arr, i + 1)

\* lines 226-238
LoadWeb(s, doc) ==
    IF count(doc.web) = 0 THEN s
    ELSE IF count(doc.web[1].bookmarks) = 0 THEN s
         ELSE [s EXCEPT !.bookmarks = PushBookmarks(s.bookmarks, doc.web[1].bookmarks[1], 1)]

\* the value ProcessSettings returns
Load(doc, rnd, ub) ==
    LoadWeb(LoadExport(LoadInstalls(LoadUi(LoadGeneral(LoadDefaults(rnd), doc), doc), doc), doc, ub), doc)

----------------------------------------------------------------------------
(* Settings::Save *)

\* lines 57-64
SaveGeneral(s) ==
    Gen(IF s.has_custom_lang THEN <<GetLanguageCode(s.custom_lang)>> ELSE <<>>,
        IF s.has_external_romfs THEN <<s.external_romfs>> ELSE <<>>,
        <<s.use_12h_time>>, <<s.ignore_hidden_files>>)

\* SaveUi writing the four scheme keys without the test of line 66
SaveUi_SchemeAlways(s) ==
    Ui(<<ColorToHex(s.custom_scheme.bg)>>, <<ColorToHex(s.custom_scheme.base)>>,
       <<ColorToHex(s.custom_scheme.base_focus)>>, <<ColorToHex(s.custom_scheme.text)>>,
       <<s.menu_item_size>>,
       IF s.has_scrollbar_color THEN <<ColorToHex(s.scrollbar_color)>> ELSE <<>>,
       IF s.has_progressbar_color THEN <<ColorToHex(s.progressbar_color)>> ELSE <<>>)

\* lines 66-78
SaveUi(s) ==
    Ui(IF s.has_custom_scheme THEN <<ColorToHex(s.custom_scheme.bg)>> ELSE <<>>,
       IF s.has_custom_scheme THEN <<ColorToHex(s.custom_scheme.base)>> ELSE <<>>,
       IF s.has_custom_scheme THEN <<ColorToHex(s.custom_scheme.base_focus)>> ELSE <<>>,
       IF s.has_custom_scheme THEN <<ColorToHex(s.custom_scheme.text)>> ELSE <<>>,
       <<s.menu_item_size>>,
       IF s.has_scrollbar_color THEN <<ColorToHex(s.scrollbar_color)>> ELSE <<>>,
       IF s.has_progressbar_color THEN <<ColorToHex(s.progressbar_color)>> ELSE <<>>)

\* lines 80-82
SaveInstalls(s) ==
    Inst(<<s.ignore_required_fw_ver>>, <<s.show_deletion_prompt_after_install>>,
         <<s.copy_buffer_max_size>>, <<>>)

\* line 84
SaveExport(s) == Exp(<<s.decrypt_buffer_max_size>>)

\* lines 86-90
SaveWeb(s) ==
    IF Len(s.bookmarks) = 0 THEN <<>>
    ELSE <<Web(<<[i \in 1..Len(s.bookmarks) |->
                    [name |-> <<s.bookmarks[i].name>>, url |-> <<s.bookmarks[i].url>>]]>>)>>

\* lines 55-90
BuildJson(s) ==
    Doc(<<SaveGeneral(s)>>, <<SaveUi(s)>>, <<SaveInstalls(s)>>, <<SaveExport(s)>>, SaveWeb(s))

----------------------------------------------------------------------------
(* The documents the settings file may hold at startup *)

OptBool == Opt(BOOLEAN)

\* general.customLanguage: absent, empty, known codes, an unknown code
LangMembers == {<<>>, << <<>> >>, <<Str_fr>>, <<Str_de>>, <<Str_xx>>}

\* general.externalRomFs values
ExtStrings ==
    {<<>>, Str_ext, Str_slash \o Str_ext, Str_sdmc_slash \o Str_ext, Str_sdmc_slash,
     Str_sdmc, Str_sdmc \o Str_ext, Str_slash, <<"s">>}

ExtMembers == {<<>>} \cup {<<e>> : e \in ExtStrings}

\* a "#RRGGBBAA" member: absent, empty, or a color
HexMembers == {<<>>, << <<>> >>, <<ColorToHex(ColA)>>}

GeneralDocs ==
    {Doc(<<Gen(l, e, t, h)>>, <<>>, <<>>, <<>>, <<>>) :
        l \in LangMembers, e \in ExtMembers, t \in {<<>>, <<TRUE>>}, h \in {<<>>, <<TRUE>>}}

SchemeDocs ==
    {Doc(<<>>, <<Ui(bg, base, bf, text, <<>>, <<>>, <<>>)>>, <<>>, <<>>, <<>>) :
        bg \in HexMembers, base \in HexMembers, bf \in HexMembers, text \in HexMembers}

UiDocs ==
    {Doc(<<>>, <<Ui(<<>>, <<>>, <<>>, <<>>, m, sb, pb)>>, <<>>, <<>>, <<>>) :
        m \in {<<>>, <<120>>}, sb \in HexMembers \cup {<<ColorToHex(ColB)>>},
        pb \in HexMembers \cup {<<ColorToHex(ColC)>>}}

InstallsMembers ==
    Opt({Inst(fw, del, copy, dec) :
            fw \in {<<>>, <<FALSE>>}, del \in {<<>>, <<TRUE>>},
            copy \in {<<>>, <<MB(8)>>}, dec \in {<<>>, <<MB(1)>>}})

ExportMembers == Opt({Exp(dec) : dec \in {<<>>, <<MB(8)>>, <<MB(32)>>}})

BufferDocs == {Doc(<<>>, <<>>, i, e, <<>>) : i \in InstallsMembers, e \in ExportMembers}

\* entries of web.bookmarks: two complete ones and the ways of being incomplete
BookmarkEntries ==
    {[name |-> <<Str_A>>, url |-> <<Str_U>>], [name |-> <<Str_B>>, url |-> <<Str_V>>],
     [name |-> <<Str_A>>, url |-> << <<>> >>], [name |-> <<>>, url |-> <<Str_U>>],
     [name |-> << <<>> >>, url |-> <<Str_V>>], [name |-> <<Str_B>>, url |-> <<>>]}

BookmarkArrays == UNION {[1..n -> BookmarkEntries] : n \in 0..MaxBookmarks}

WebDocs ==
    {Doc(<<>>, <<>>, <<>>, <<>>, <<Web(b)>>) : b \in {<<>>} \cup {<<a>> : a \in BookmarkArrays}}

\* hand-written documents with every section, with and without installs and export
MixedDocs ==
    {Doc(<<Gen(<<Str_fr>>, <<Str_ext>>, <<TRUE>>, <<>>)>>,
         <<Ui(<<ColorToHex(ColA)>>, <<>>, << <<>> >>, <<>>, <<120>>, <<ColorToHex(ColB)>>, <<>>)>>,
         i, e,
         <<Web(<<<<[name |-> <<Str_A>>, url |-> << <<>> >>], [name |-> <<Str_B>>, url |-> <<Str_V>>],
                   [name |-> <<Str_A>>, url |-> <<Str_U>>]>>>>)>>) :
        i \in {<<>>, <<Inst(<<FALSE>>, <<>>, <<MB(8)>>, <<MB(1)>>)>>, <<Inst(<<>>, <<TRUE>>, <<>>, <<>>)>>},
        e \in {<<>>, <<Exp(<<MB(32)>>)>>}}

InitDocs ==
    {EmptyDoc} \cup GeneralDocs \cup SchemeDocs \cup UiDocs \cup BufferDocs \cup WebDocs \cup MixedDocs

----------------------------------------------------------------------------
(* The Settings values the application assigns before a Save *)

Bmk(n, u) == [name |-> n, url |-> u]

AllSet(lang, big, dec, bm) ==
    [has_custom_lang |-> TRUE, custom_lang |-> lang,
     has_external_romfs |-> TRUE, external_romfs |-> Str_sdmc_slash \o Str_ext,
     use_12h_time |-> big, ignore_hidden_files |-> ~big,
     has_custom_scheme |-> TRUE, custom_scheme |-> Scheme(ColA, ColB, ColC, ColA),
     menu_item_size |-> IF big THEN 120 ELSE 80,
     has_scrollbar_color |-> TRUE, scrollbar_color |-> ColB,
     has_progressbar_color |-> TRUE, progressbar_color |-> ColC,
     ignore_required_fw_ver |-> ~big, show_deletion_prompt_after_install |-> big,
     copy_buffer_max_size |-> IF big THEN MB(8) ELSE MB(4),
     decrypt_buffer_max_size |-> dec,
     bookmarks |-> bm]

AssignedBookmarks == {<<>>, <<Bmk(Str_A, Str_U)>>, <<Bmk(Str_B, Str_V), Bmk(Str_A, Str_U)>>}

AllSetSettings ==
    {AllSet(lang, big, dec, bm) :
        lang \in {"French", "German"}, big \in BOOLEAN,
        dec \in {MB(16), MB(8)}, bm \in AssignedBookmarks}

SomeSetSettings ==
    {[AllSet("German", TRUE, MB(16), <<>>) EXCEPT
        !.has_custom_lang = a, !.has_external_romfs = b, !.has_custom_scheme = c,
        !.has_scrollbar_color = ~a, !.has_progressbar_color = ~b] :
        a \in BOOLEAN, b \in BOOLEAN, c \in BOOLEAN}

AssignedSettings == AllSetSettings \cup SomeSetSettings

----------------------------------------------------------------------------
(* Initial state: a fresh process, a settings file left by an earlier run or by hand *)

InitProcess ==
    /\ pc = "start"
    /\ settings = ZeroSettings
    /\ loaded = <<>>
    /\ saved = <<>>
    /\ json = <<>>
    /\ saveCrash = FALSE
    /\ g_DefaultLanguage = "English"
    /\ g_DefaultLanguageLoaded = FALSE
    /\ hostQueries = 0
    /\ langResult = <<>>
    /\ resResult = <<>>

Init ==
    /\ InitProcess
    /\ file \in Opt(InitDocs)
    /\ hostLang = "SetLanguage_ENUS"
    /\ sdFiles = {}

----------------------------------------------------------------------------
(* Operations *)

\* ProcessSettings(): lines 135-240
ProcessSettings ==
    /\ pc \in {"start", "ready"}
    /\ \E rnd \in RandomSchemes :
       \E ub \in IF ReadsMissingInstalls(ReadJSON(file)) THEN UndefinedOutcomes ELSE {<<>>} :
         LET doc == ReadJSON(file)
         IN IF ReadsMissingInstalls(doc) /\ ub = <<>>
            THEN /\ pc' = "aborted"
                 /\ settings' = ZeroSettings
                 /\ loaded' = <<>>
            ELSE /\ pc' = "ready"
                 /\ settings' = Load(doc, rnd, ub)
                 /\ loaded' = <<[doc |-> doc, rnd |-> rnd]>>
    /\ resResult' = <<>>
    /\ langResult' = <<>>
    /\ UNCHANGED <<file, saveVars, g_DefaultLanguage, g_DefaultLanguageLoaded, hostLang,
                   hostQueries, sdFiles>>

\* the application assigns the fields of the global Settings before saving
SetSettings ==
    /\ pc = "ready"
    /\ \E v \in AssignedSettings :
         /\ v # settings
         /\ settings' = v
    /\ loaded' = <<>>
    /\ resResult' = <<>>
    /\ langResult' = <<>>
    /\ UNCHANGED <<file, pc, saveVars, g_DefaultLanguage, g_DefaultLanguageLoaded, hostLang,
                   hostQueries, sdFiles>>

\* Save_Delete without the DeleteFile of line 93
Save_Delete_NoDelete ==
    /\ pc = "ready"
    /\ json' = <<BuildJson(settings)>>
    /\ file' = file
    /\ saved' = <<>>
    /\ pc' = "save_deleted"
    /\ UNCHANGED <<settings, loaded, saveCrash, langVars, resVars>>

\* Settings::Save(), lines 55-93: build the document, delete the old file
Save_Delete ==
    /\ pc = "ready"
    /\ json' = <<BuildJson(settings)>>
    /\ file' = DeleteFile(file)
    /\ saved' = <<>>
    /\ pc' = "save_deleted"
    /\ UNCHANGED <<settings, loaded, saveCrash, langVars, resVars>>

\* Settings::Save(), line 94: write the new document
Save_Write ==
    /\ pc = "save_deleted"
    /\ file' = WriteJSON(file, json[1])
    /\ saved' = <<settings>>
    /\ json' = <<>>
    /\ saveCrash' = FALSE
    /\ pc' = "ready"
    /\ UNCHANGED <<settings, loaded, langVars, resVars>>

\* the process ends (exit, abort or power loss) and the application is started again
Restart ==
    /\ pc' = "start"
    /\ saveCrash' = (pc = "save_deleted" \/ (saveCrash /\ file = <<>>))
    /\ settings' = ZeroSettings
    /\ loaded' = <<>>
    /\ json' = <<>>
    /\ g_DefaultLanguage' = "English"
    /\ g_DefaultLanguageLoaded' = FALSE
    /\ hostQueries' = 0
    /\ langResult' = <<>>
    /\ resResult' = <<>>
    /\ UNCHANGED <<file, saved, hostLang, sdFiles>>

Next ==
    \/ ProcessSettings
    \/ SetSettings
    \/ Save_Delete
    \/ Save_Write
    \/ Restart

Spec == Init /\ [][Next]_vars

----------------------------------------------------------------------------
(* Settings::GetLanguage and the default-language cache *)

HostLanguages == {"SetLanguage_ENUS", "SetLanguage_FR", "SetLanguage_DE"}

GetLanguageBySystemLanguage(sys_lang) ==
    CASE sys_lang = "SetLanguage_FR" -> "French"
      [] sys_lang = "SetLanguage_DE" -> "German"
      [] OTHER -> "English"

\* EnsureDefaultLanguage without the assignment of line 46
EnsureDefaultLanguage_NoFlag(ok) ==
    IF ~g_DefaultLanguageLoaded
    THEN /\ hostQueries < MaxHostQueries
         /\ hostQueries' = hostQueries + 1
         /\ IF ok
            THEN /\ g_DefaultLanguage' = GetLanguageBySystemLanguage(hostLang)
                 /\ g_DefaultLanguageLoaded' = g_DefaultLanguageLoaded
                 /\ pc' = pc
            ELSE /\ pc' = "aborted"
                 /\ UNCHANGED <<g_DefaultLanguage, g_DefaultLanguageLoaded>>
    ELSE UNCHANGED <<hostQueries, g_DefaultLanguage, g_DefaultLanguageLoaded, pc>>

\* EnsureDefaultLanguage(), lines 39-50; ok: the host answered both calls (GLEAF_RC_ASSERT)
EnsureDefaultLanguage(ok) ==
    IF ~g_DefaultLanguageLoaded
    THEN /\ hostQueries < MaxHostQueries
         /\ hostQueries' = hostQueries + 1
         /\ IF ok
            THEN /\ g_DefaultLanguage' = GetLanguageBySystemLanguage(hostLang)
                 /\ g_DefaultLanguageLoaded' = TRUE
                 /\ pc' = pc
            ELSE /\ pc' = "aborted"
                 /\ UNCHANGED <<g_DefaultLanguage, g_DefaultLanguageLoaded>>
    ELSE UNCHANGED <<hostQueries, g_DefaultLanguage, g_DefaultLanguageLoaded, pc>>

\* Settings::GetLanguage(), lines 242-250
GetLanguage ==
    /\ pc = "ready"
    /\ IF settings.has_custom_lang
       THEN /\ langResult' = <<[lang |-> settings.custom_lang, custom |-> TRUE]>>
            /\ UNCHANGED <<hostQueries, g_DefaultLanguage, g_DefaultLanguageLoaded, pc>>
       ELSE \E ok \in BOOLEAN :
            /\ EnsureDefaultLanguage(ok)
            /\ langResult' = IF pc' = "aborted" THEN <<>>
                             ELSE <<[lang |-> g_DefaultLanguage', custom |-> FALSE]>>
    /\ UNCHANGED <<file, settings, loaded, saveVars, hostLang, resVars>>

\* the console's language setting changes while the application runs
HostLanguageChange ==
    /\ \E l \in HostLanguages :
         /\ l # hostLang
         /\ hostLang' = l
    /\ UNCHANGED <<file, pc, settings, loaded, saveVars, g_DefaultLanguage,
                   g_DefaultLanguageLoaded, hostQueries, langResult, resVars>>

LanguageDocs ==
    {Doc(<<Gen(l, <<>>, <<>>, <<>>)>>, <<>>, <<>>, <<>>, <<>>) : l \in LangMembers}

InitLanguage ==
    /\ InitProcess
    /\ file \in Opt(LanguageDocs)
    /\ hostLang \in HostLanguages
    /\ sdFiles = {}

NextLanguage ==
    \/ ProcessSettings
    \/ GetLanguage
    \/ HostLanguageChange
    \/ Restart

SpecLanguage == InitLanguage /\ [][NextLanguage]_vars

----------------------------------------------------------------------------
(* Settings::PathForResource and Settings::ReadJSONResource *)

Resources == {Str_foo, Str_bar}

\* sd_exp->IsFile(path)
IsFile(path) == path \in sdFiles

\* romfs_exp->MakeAbsolute(res_path)
MakeAbsolute(res_path) == Str_romfs \o res_path

\* PathForResourceOf without the IsFile test of line 103
PathForResourceOf_NoIsFile(s, res_path) ==
    LET ext_path == s.external_romfs \o Str_slash \o res_path
    IN IF s.has_external_romfs THEN ext_path ELSE MakeAbsolute(res_path)

\* lines 97-108
PathForResourceOf(s, res_path) ==
    LET ext_path == s.external_romfs \o Str_slash \o res_path
    IN IF s.has_external_romfs /\ IsFile(ext_path) THEN ext_path ELSE MakeAbsolute(res_path)

\* lines 110-121: the explorer that reads and the path it is given
ReadJSONResourceOf(s, res_path) ==
    LET ext_path == s.external_romfs \o Str_slash \o res_path
    IN IF s.has_external_romfs /\ IsFile(ext_path)
       THEN [explorer |-> "sd", path |-> ext_path]
       ELSE [explorer |-> "romfs", path |-> MakeAbsolute(res_path)]

PathForResource ==
    /\ pc = "ready"
    /\ \E res \in Resources :
         resResult' = <<[op |-> "PathForResource", res |-> res, explorer |-> "",
                         path |-> PathForResourceOf(settings, res)]>>
    /\ UNCHANGED <<file, pc, settings, loaded, saveVars, langVars, sdFiles>>

ReadJSONResource ==
    /\ pc = "ready"
    /\ \E res \in Resources :
         LET r == ReadJSONResourceOf(settings, res)
         IN resResult' = <<[op |-> "ReadJSONResource", res |-> res, explorer |-> r.explorer,
                            path |-> r.path]>>
    /\ UNCHANGED <<file, pc, settings, loaded, saveVars, langVars, sdFiles>>

ResourceDocs ==
    {Doc(<<Gen(<<>>, e, <<>>, <<>>)>>, <<>>, <<>>, <<>>, <<>>) :
        e \in {<<>>, << <<>> >>, <<Str_ext>>, <<Str_slash \o Str_ext>>,
               <<Str_sdmc_slash \o Str_ext>>, <<Str_sdmc_slash \o Str_bar>>}}

\* files an SD card may carry under the directories the documents name
SdPaths ==
    {Str_sdmc_slash \o Str_ext \o Str_slash \o Str_foo,
     Str_sdmc_slash \o Str_ext \o Str_slash \o Str_bar,
     Str_sdmc_slash \o Str_bar \o Str_slash \o Str_foo,
     Str_sdmc_slash \o Str_foo}

InitResource ==
    /\ InitProcess
    /\ file \in Opt(ResourceDocs)
    /\ hostLang = "SetLanguage_ENUS"
    /\ sdFiles \in SUBSET SdPaths

NextResource ==
    \/ ProcessSettings
    \/ PathForResource
    \/ ReadJSONResource
    \/ Restart

SpecResource == InitResource /\ [][NextResource]_vars

----------------------------------------------------------------------------
(* Vocabulary of the properties, written from the documented behaviour *)

\* the last operation was a ProcessSettings that returned, and settings is its result
Returned == pc = "ready" /\ loaded # <<>>

\* the document the last ProcessSettings read, and the random scheme it generated
LoadedDoc == loaded[1].doc
LoadedRnd == loaded[1].rnd

\* the section is present and holds the key
HasKey(section, key) == section # <<>> /\ section[1][key] # <<>>

\* the section is present and holds the key with a non-empty string
HasText(section, key) == HasKey(section, key) /\ section[1][key][1] # <<>>

StartsWith(s, prefix) == Len(s) >= Len(prefix) /\ SubSeq(s, 1, Len(prefix)) = prefix

SchemeKeys == {"background", "base", "baseFocus", "text"}

\* the scheme color a document key overrides
SchemeColor(s, key) ==
    CASE key = "background" -> s.custom_scheme.bg
      [] key = "base"       -> s.custom_scheme.base
      [] key = "baseFocus"  -> s.custom_scheme.base_focus
      [] key = "text"       -> s.custom_scheme.text

\* the documented default of every field, with the given random scheme
DocumentedDefaults(rnd) ==
    [has_custom_lang |-> FALSE, custom_lang |-> "English",
     has_external_romfs |-> FALSE, external_romfs |-> <<>>,
     use_12h_time |-> FALSE, ignore_hidden_files |-> FALSE,
     has_custom_scheme |-> FALSE, custom_scheme |-> rnd,
     menu_item_size |-> 80,
     has_scrollbar_color |-> FALSE, scrollbar_color |-> ZeroColor,
     has_progressbar_color |-> FALSE, progressbar_color |-> ZeroColor,
     ignore_required_fw_ver |-> TRUE, show_deletion_prompt_after_install |-> FALSE,
     copy_buffer_max_size |-> 4 * 1024 * 1024, decrypt_buffer_max_size |-> 16 * 1024 * 1024,
     bookmarks |-> <<>>]

AllFlagsTrue(s) ==
    /\ s.has_custom_lang /\ s.has_external_romfs /\ s.has_custom_scheme
    /\ s.has_scrollbar_color /\ s.has_progressbar_color

\* external_romfs already normalized, every bookmark complete
WellFormed(s) ==
    /\ StartsWith(s.external_romfs, Str_sdmc_slash)
    /\ \A i \in 1..Len(s.bookmarks) : s.bookmarks[i].name # <<>> /\ s.bookmarks[i].url # <<>>

\* the settings file is what a completed Save wrote, and settings was loaded from it
LoadedFromSave == Returned /\ saved # <<>> /\ file = <<LoadedDoc>>

----------------------------------------------------------------------------
(* C1 *)

\* C1: round trip. Whenever a Settings value with every has_* flag true (external_romfs
\* starting with "sdmc:/", bookmarks complete) was saved and ProcessSettings then read
\* that file, the loaded value equals the saved one in every field.
C1_RoundTrip ==
    (LoadedFromSave /\ AllFlagsTrue(saved[1]) /\ WellFormed(saved[1])) => settings = saved[1]

----------------------------------------------------------------------------
(* C2 *)

\* C2: presence flags. After ProcessSettings each has_* flag is true exactly when the
\* document holds the key (for the scheme: one of its four keys) with a non-empty value;
\* after Save the file holds an optional field's key(s) exactly when its flag is true, and
\* holds the flagless keys always.
C2_PresenceFlags ==
    /\ Returned =>
         /\ settings.has_custom_lang = HasText(LoadedDoc.general, "customLanguage")
         /\ settings.has_external_romfs = HasText(LoadedDoc.general, "externalRomFs")
         /\ settings.has_custom_scheme = (\E k \in SchemeKeys : HasText(LoadedDoc.ui, k))
         /\ settings.has_scrollbar_color = HasText(LoadedDoc.ui, "scrollBar")
         /\ settings.has_progressbar_color = HasText(LoadedDoc.ui, "progressBar")
    /\ saved # <<>> =>
         /\ file # <<>>
         /\ HasKey(file[1].general, "customLanguage") = saved[1].has_custom_lang
         /\ HasKey(file[1].general, "externalRomFs") = saved[1].has_external_romfs
         /\ \A k \in SchemeKeys : HasKey(file[1].ui, k) = saved[1].has_custom_scheme
         /\ HasKey(file[1].ui, "scrollBar") = saved[1].has_scrollbar_color
         /\ HasKey(file[1].ui, "progressBar") = saved[1].has_progressbar_color
         /\ HasKey(file[1].general, "use12hTime")
         /\ HasKey(file[1].general, "ignoreHiddenFiles")
         /\ HasKey(file[1].ui, "menuItemSize")
         /\ HasKey(file[1].installs, "ignoreRequiredFwVersion")
         /\ HasKey(file[1].installs, "showDeletionPromptAfterInstall")
         /\ HasKey(file[1].installs, "copyBufferMaxSize")
         /\ HasKey(file[1].export, "decryptBufferMaxSize")

\* a Settings value with some flags set and some clear was saved and loaded back
C2_Witness ==
    /\ LoadedFromSave
    /\ saved[1].has_custom_scheme /\ ~saved[1].has_custom_lang /\ saved[1].has_scrollbar_color
    /\ ~saved[1].has_progressbar_color
    /\ settings.has_custom_scheme /\ ~settings.has_custom_lang

----------------------------------------------------------------------------
(* C3 *)

\* C3: path normalization. After ProcessSettings on a document whose
\* general.externalRomFs is a non-empty string v, has_external_romfs is true and
\* external_romfs begins with "sdmc:/": it is v if v starts with "sdmc:/", "sdmc:" + v
\* if v starts with "/", and "sdmc:/" + v otherwise; normalizing it again changes nothing.
C3_PathNormalization ==
    (Returned /\ HasText(LoadedDoc.general, "externalRomFs")) =>
        LET v == LoadedDoc.general[1].externalRomFs[1]
        IN /\ settings.has_external_romfs
           /\ StartsWith(settings.external_romfs, Str_sdmc_slash)
           /\ settings.external_romfs =
                 IF StartsWith(v, Str_sdmc_slash) THEN v
                 ELSE IF v[1] = "/" THEN Str_sdmc \o v
                 ELSE Str_sdmc_slash \o v
           /\ NormalizeExternalRomFs(settings.external_romfs) = settings.external_romfs

\* "ext" was loaded and became "sdmc:/ext"
C3_Witness ==
    /\ Returned
    /\ HasText(LoadedDoc.general, "externalRomFs")
    /\ LoadedDoc.general[1].externalRomFs[1] = <<"e", "x", "t">>
    /\ settings.external_romfs = <<"s", "d", "m", "c", ":", "/", "e", "x", "t">>

----------------------------------------------------------------------------
(* C4 *)

\* an entry of web.bookmarks with name and url both present and non-empty
CompleteEntry(e) == e.name # <<>> /\ e.name[1] # <<>> /\ e.url # <<>> /\ e.url[1] # <<>>

\* the complete entries of an array, in document order
CompleteEntries(arr) ==
    LET kept == SelectSeq(arr, CompleteEntry)
    IN [i \in 1..Len(kept) |-> [name |-> kept[i].name[1], url |-> kept[i].url[1]]]

\* C4: bookmark filtering. After ProcessSettings, settings.bookmarks is exactly the
\* subsequence of the web.bookmarks entries, in document order, whose name and url are
\* present and non-empty; no stored bookmark has an empty name or url; no load ends
\* early over an incomplete entry (the only load that does not return is the one that
\* reads the installs section of a document without one).
C4_BookmarkFiltering ==
    /\ Returned =>
         settings.bookmarks =
            IF HasKey(LoadedDoc.web, "bookmarks")
            THEN CompleteEntries(LoadedDoc.web[1].bookmarks[1])
            ELSE <<>>
    /\ \A i \in 1..Len(settings.bookmarks) :
         settings.bookmarks[i].name # <<>> /\ settings.bookmarks[i].url # <<>>
    /\ pc = "aborted" => (file # <<>> /\ file[1].export # <<>> /\ file[1].installs = <<>>)

\* [{name:"A",url:""}, {name:"B",url:...}] was loaded and only B was stored
C4_Witness ==
    /\ Returned
    /\ HasKey(LoadedDoc.web, "bookmarks")
    /\ LoadedDoc.web[1].bookmarks[1] =
          <<[name |-> <<Str_A>>, url |-> << <<>> >>], [name |-> <<Str_B>>, url |-> <<Str_V>>]>>
    /\ settings.bookmarks = <<[name |-> Str_B, url |-> Str_V]>>

----------------------------------------------------------------------------
(* C5 *)

\* C5: resource precedence. PathForResource(p) returns external_romfs + "/" + p exactly
\* when has_external_romfs is true and that path is a regular file on the SD card, and
\* the bundled root's absolute path otherwise; ReadJSONResource(p) reads through the
\* explorer and path that PathForResource(p) selects.
C5_ResourcePrecedence ==
    resResult # <<>> =>
        LET r        == resResult[1]
            ext_path == settings.external_romfs \o <<"/">> \o r.res
            external == settings.has_external_romfs /\ ext_path \in sdFiles
            bundled  == <<"r", "o", "m", "f", "s", ":", "/">> \o r.res
        IN /\ (r.path = ext_path) <=> external
           /\ ~external => r.path = bundled
           /\ r.op = "ReadJSONResource" =>
                /\ r.path = PathForResourceOf(settings, r.res)
                /\ r.explorer = IF external THEN "sd" ELSE "romfs"

\* external root "sdmc:/ext" with foo on the card: the external path was returned
C5_Witness ==
    /\ resResult # <<>>
    /\ resResult[1].op = "PathForResource"
    /\ settings.has_external_romfs
    /\ settings.external_romfs = Str_sdmc_slash \o Str_ext
    /\ resResult[1].res = Str_foo
    /\ resResult[1].path = Str_sdmc_slash \o Str_ext \o Str_slash \o Str_foo

----------------------------------------------------------------------------
(* C6 *)

\* no decryptBufferMaxSize key anywhere in the document
NoDecryptKey(doc) ==
    ~HasKey(doc.export, "decryptBufferMaxSize") /\ ~HasKey(doc.installs, "decryptBufferMaxSize")

\* C6: defaults. ProcessSettings on a missing or empty document returns the documented
\* defaults, and on any document leaves every field whose key is absent at its default
\* (the scheme colors at the random scheme of that load); it returns for every document.
C6_Defaults ==
    /\ pc # "aborted"
    /\ Returned =>
         LET d   == LoadedDoc
             def == DocumentedDefaults(LoadedRnd)
         IN /\ d = EmptyDoc => settings = def
            /\ ~HasKey(d.general, "customLanguage") => ~settings.has_custom_lang
            /\ ~HasKey(d.general, "externalRomFs") => ~settings.has_external_romfs
            /\ ~HasKey(d.general, "use12hTime") => settings.use_12h_time = def.use_12h_time
            /\ ~HasKey(d.general, "ignoreHiddenFiles") =>
                   settings.ignore_hidden_files = def.ignore_hidden_files
            /\ (\A k \in SchemeKeys : ~HasKey(d.ui, k)) => ~settings.has_custom_scheme
            /\ \A k \in SchemeKeys : ~HasKey(d.ui, k) => SchemeColor(settings, k) = SchemeColor(def, k)
            /\ ~HasKey(d.ui, "menuItemSize") => settings.menu_item_size = def.menu_item_size
            /\ ~HasKey(d.ui, "scrollBar") => ~settings.has_scrollbar_color
            /\ ~HasKey(d.ui, "progressBar") => ~settings.has_progressbar_color
            /\ ~HasKey(d.installs, "ignoreRequiredFwVersion") =>
                   settings.ignore_required_fw_ver = def.ignore_required_fw_ver
            /\ ~HasKey(d.installs, "showDeletionPromptAfterInstall") =>
                   settings.show_deletion_prompt_after_install = def.show_deletion_prompt_after_install
            /\ ~HasKey(d.installs, "copyBufferMaxSize") =>
                   settings.copy_buffer_max_size = def.copy_buffer_max_size
            /\ NoDecryptKey(d) => settings.decrypt_buffer_max_size = def.decrypt_buffer_max_size
            /\ ~HasKey(d.web, "bookmarks") => settings.bookmarks = <<>>

----------------------------------------------------------------------------
(* C7 *)

\* the scheme keys a document specifies
SpecifiedSchemeKeys(doc) == {k \in SchemeKeys : HasText(doc.ui, k)}

\* C7: partial scheme override. After ProcessSettings on a document specifying a
\* non-empty proper subset S of the four scheme keys, has_custom_scheme is true, every
\* color in S is the decoded document value and every color outside S is the color of
\* the random scheme generated by that load.
C7_PartialScheme ==
    (Returned /\ SpecifiedSchemeKeys(LoadedDoc) # {} /\ SpecifiedSchemeKeys(LoadedDoc) # SchemeKeys) =>
        /\ settings.has_custom_scheme
        /\ \A k \in SchemeKeys :
             SchemeColor(settings, k) =
                IF k \in SpecifiedSchemeKeys(LoadedDoc)
                THEN FromHex(LoadedDoc.ui[1][k][1])
                ELSE SchemeColor([custom_scheme |-> LoadedRnd], k)

\* only ui.background = "#FF100FAB" was specified
C7_Witness ==
    /\ Returned
    /\ SpecifiedSchemeKeys(LoadedDoc) = {"background"}
    /\ LoadedDoc.ui[1].background[1] = <<"#", "F", "F", "1", "0", "0", "F", "A", "B">>
    /\ settings.has_custom_scheme
    /\ settings.custom_scheme.bg = [r |-> 255, g |-> 16, b |-> 15, a |-> 171]
    /\ settings.custom_scheme.base = LoadedRnd.base
    /\ settings.custom_scheme.base # settings.custom_scheme.bg

----------------------------------------------------------------------------
(* C8 *)

\* C8: language resolution and caching. In every step of a process: a GetLanguage call
\* with has_custom_lang returns custom_lang and touches neither host nor cache; a call
\* without it returns the cached language, querying the host only if the cache is not
\* loaded; the host is queried at most once per process; and a loaded cache keeps its
\* flag and its value until the process ends.
C8_LanguageStep ==
    /\ hostQueries' <= 1
    /\ (g_DefaultLanguageLoaded /\ pc' # "start") =>
         /\ g_DefaultLanguageLoaded'
         /\ g_DefaultLanguage' = g_DefaultLanguage
         /\ hostQueries' = hostQueries
    /\ (GetLanguage /\ settings.has_custom_lang) =>
         /\ langResult' = <<[lang |-> settings.custom_lang, custom |-> TRUE]>>
         /\ UNCHANGED <<hostQueries, g_DefaultLanguage, g_DefaultLanguageLoaded>>
    /\ (GetLanguage /\ ~settings.has_custom_lang /\ pc' = "ready") =>
         /\ langResult'[1].lang =
               IF g_DefaultLanguageLoaded THEN g_DefaultLanguage
               ELSE GetLanguageBySystemLanguage(hostLang)
         /\ hostQueries' = hostQueries + (IF g_DefaultLanguageLoaded THEN 0 ELSE 1)
         /\ g_DefaultLanguageLoaded'

C8_LanguageCaching == [][C8_LanguageStep]_vars

\* a call returned the cached language although the host now reports another one
C8_Witness ==
    /\ langResult # <<>>
    /\ ~langResult[1].custom
    /\ g_DefaultLanguageLoaded
    /\ hostQueries = 1
    /\ langResult[1].lang = g_DefaultLanguage
    /\ langResult[1].lang # GetLanguageBySystemLanguage(hostLang)

----------------------------------------------------------------------------
(* C9 *)

\* C9: Save is delete-then-write. Between the two steps no settings file exists and
\* the document is still unwritten; a process that stopped there leaves no file, and the
\* next ProcessSettings returns the defaults; a completed Save leaves exactly the new
\* document in the file.
C9_DeleteThenWrite ==
    /\ pc = "save_deleted" => (file = <<>> /\ saved = <<>> /\ json # <<>>)
    /\ saveCrash => file = <<>>
    /\ (saveCrash /\ Returned) => settings = DocumentedDefaults(LoadedRnd)
    /\ saved # <<>> => file = <<BuildJson(saved[1])>>

\* the process stopped between delete and write, was started again and loaded defaults
C9_Witness ==
    /\ saveCrash
    /\ Returned
    /\ file = <<>>
    /\ settings.menu_item_size = 80
    /\ settings.bookmarks = <<>>

----------------------------------------------------------------------------
(* C10 *)

\* C10: decryptBufferMaxSize asymmetry. Save writes decrypt_buffer_max_size under export
\* and never under installs; ProcessSettings on a document with an export section
\* returns installs.decryptBufferMaxSize, or 16 MiB when that key is absent, whatever
\* export.decryptBufferMaxSize is; so a saved file loads as 16 MiB.
C10_DecryptAsymmetry ==
    /\ saved # <<>> =>
         /\ file[1].export = <<[decryptBufferMaxSize |-> <<saved[1].decrypt_buffer_max_size>>]>>
         /\ ~HasKey(file[1].installs, "decryptBufferMaxSize")
    /\ (pc = "aborted" /\ file # <<>>) => file[1].export = <<>>
    /\ (Returned /\ LoadedDoc.export # <<>>) =>
         settings.decrypt_buffer_max_size =
            IF HasKey(LoadedDoc.installs, "decryptBufferMaxSize")
            THEN LoadedDoc.installs[1].decryptBufferMaxSize[1]
            ELSE 16 * 1024 * 1024
    /\ LoadedFromSave => settings.decrypt_buffer_max_size = 16 * 1024 * 1024

====
